---- MODULE Spec2Model ----
(***************************************************************************)
(* Admin product controller (controllers/Admin/Product/getProduct.js):     *)
(* getAllProducts, getProductById and createProduct, over a document store *)
(* (products, categories), an uploads directory and a millisecond clock.   *)
(*                                                                         *)
(* Strings are sequences of one-character strings, so that parseInt,       *)
(* toLowerCase, the slug replacement and the case-insensitive substring    *)
(* match are computed character by character.                              *)
(***************************************************************************)
EXTENDS Integers, Sequences, FiniteSets, TLC

VARIABLES
  products,    \* the Product documents of the store
  categories,  \* the Category documents, by _id
  uploadDir,   \* whether the uploads directory exists
  files,       \* the files under uploads/: filename -> the request that wrote it
  now,         \* Date.now()
  reqs,        \* the createProduct requests
  q            \* the query being answered (getAllProducts, getProductById)

vars == <<products, categories, uploadDir, files, now, reqs, q>>

(***************************************************************************)
(* Bounds of the model.                                                    *)
(***************************************************************************)
\* products in the catalogue the listing is checked on
MaxCatalog == 4
\* largest reading of the millisecond clock
MaxClock == 2
\* createProduct requests in flight
NumRequests == 2

(***************************************************************************)
(* JavaScript values: undefined, null, numbers (with NaN), strings, arrays *)
(* and objects, as far as the handlers look at them.                       *)
(***************************************************************************)
JSV(t, n, s) == [t |-> t, n |-> n, s |-> s]
Undef == JSV("undefined", 0, <<>>)
Null == JSV("null", 0, <<>>)
NaN == JSV("nan", 0, <<>>)
Num(n) == JSV("number", n, <<>>)
Str(s) == JSV("string", 0, s)

\* the words the code compares strings with
ACTIVE == <<"a", "c", "t", "i", "v", "e">>
INACTIVE == <<"i", "n", "a", "c", "t", "i", "v", "e">>
DELETED == <<"d", "e", "l", "e", "t", "e", "d">>
BOGUS == <<"a", "r", "c", "h", "i", "v", "e", "d">>
WIDGETS == <<"W", "i", "d", "g", "e", "t", "s">>
GADGETS == <<"G", "a", "d", "g", "e", "t", "s">>
NOSUCH == <<"T", "o", "y", "s">>

\* JavaScript truthiness, as used by !x, x || d and if (x)
Truthy(v) ==
  CASE v.t = "undefined" -> FALSE
    [] v.t = "null" -> FALSE
    [] v.t = "nan" -> FALSE
    [] v.t = "number" -> v.n # 0
    [] v.t = "string" -> v.s # <<>>
    [] OTHER -> TRUE

\* a || d
OrElse(a, d) == IF Truthy(a) THEN a ELSE d

Digits == {"0", "1", "2", "3", "4", "5", "6", "7", "8", "9"}

DigitVal(c) ==
  CASE c = "0" -> 0 [] c = "1" -> 1 [] c = "2" -> 2 [] c = "3" -> 3
    [] c = "4" -> 4 [] c = "5" -> 5 [] c = "6" -> 6 [] c = "7" -> 7
    [] c = "8" -> 8 [] c = "9" -> 9

RECURSIVE SkipSpaces(_)
SkipSpaces(s) ==
  IF s # <<>> /\ Head(s) = " " THEN SkipSpaces(Tail(s)) ELSE s

RECURSIVE LeadingDigits(_)
LeadingDigits(s) ==
  IF s = <<>> \/ Head(s) \notin Digits
  THEN <<>>
  ELSE <<Head(s)>> \o LeadingDigits(Tail(s))

RECURSIVE DigitsValue(_, _)
DigitsValue(ds, acc) ==
  IF ds = <<>> THEN acc ELSE DigitsValue(Tail(ds), acc * 10 + DigitVal(Head(ds)))

\* parseInt of a string: leading blanks, an optional sign, then the longest
\* run of digits; NaN when there is none. What follows the digits is dropped.
ParseIntStr(s) ==
  LET t == SkipSpaces(s)
      neg == t # <<>> /\ Head(t) = "-"
      u == IF t # <<>> /\ Head(t) \in {"-", "+"} THEN Tail(t) ELSE t
      ds == LeadingDigits(u)
  IN IF ds = <<>> THEN NaN
     ELSE Num(IF neg THEN 0 - DigitsValue(ds, 0) ELSE DigitsValue(ds, 0))

\* parseInt(v): v is first converted to a string
ParseInt(v) ==
  CASE v.t = "string" -> ParseIntStr(v.s)
    [] v.t = "number" -> Num(v.n)
    [] OTHER -> NaN

IsNaN(v) == v.t = "nan"

LowerChar(c) ==
  CASE c = "A" -> "a" [] c = "B" -> "b" [] c = "W" -> "w" [] c = "G" -> "g"
    [] c = "T" -> "t" [] OTHER -> c

\* String.prototype.toLowerCase
ToLowerCase(s) == [i \in 1..Len(s) |-> LowerChar(s[i])]

AlnumLower == Digits \cup {"a", "b", "c", "d", "e", "g", "h", "i", "l", "n",
                           "o", "r", "s", "t", "v", "w", "y"}

\* s.replace(/[^a-z0-9]/gi, "-"): the i flag makes upper case letters match
\* a-z as well, so only characters that are no letter and no digit change
ReplaceNonAlnum(s) ==
  [i \in 1..Len(s) |-> IF LowerChar(s[i]) \in AlnumLower THEN s[i] ELSE "-"]

\* { $regex: pat, $options: "i" } on a pattern of plain characters
RegexMatchI(str, pat) ==
  LET a == ToLowerCase(str)
      b == ToLowerCase(pat)
  IN \E i \in 0..(Len(a) - Len(b)) : SubSeq(a, i + 1, i + Len(b)) = b


RECURSIVE ToDecimal(_)
\* the decimal digits of a natural number, as template literals print it
ToDecimal(n) ==
  LET d == CHOOSE c \in Digits : DigitVal(c) = n % 10
  IN IF n < 10 THEN <<d>> ELSE ToDecimal(n \div 10) \o <<d>>

(***************************************************************************)
(* The store: categories and the catalogue of products.                    *)
(***************************************************************************)
CatIds == {"c1", "c2"}
\* a reference whose category document has been removed
GoneCat == "c9"
CatName(c) == IF c = "c1" THEN WIDGETS ELSE GADGETS
CategoryStatuses == {ACTIVE, INACTIVE, DELETED}
ProductStatuses == <<ACTIVE, INACTIVE, DELETED>>

UPLOADS == <<"/", "u", "p", "l", "o", "a", "d", "s", "/">>
ORIGIN == <<"h", "t", "t", "p", ":", "/", "/", "h">>
BASE_URL == <<"h", "t", "t", "p", ":", "/", "/", "b">>

CatalogNames == << <<"a", "b">>, <<"B">>, <<"a">>, <<"B", "a">> >>
CatalogCats == <<"c1", "c1", GoneCat, "c1", "c2">>
CatalogImages == <<Str(<<"a", "-", "1", ".", "p">>), Undef>>

\* the i-th product of the catalogue: productId i, the other attributes
\* running through their values with different periods
CatalogProduct(i) ==
  [_id |-> i,
   productId |-> i,
   name |-> CatalogNames[((i - 1) % 4) + 1],
   description |-> <<"d">>,
   price |-> <<"9">>,
   category |-> CatalogCats[((i - 1) % 5) + 1],
   image |-> CatalogImages[((i - 1) % 2) + 1],
   status |-> ProductStatuses[((i - 1) % 3) + 1]]

Catalog == {CatalogProduct(i) : i \in 1..MaxCatalog}

InitCategories == [c \in {"c1"} |-> [name |-> CatName(c), status |-> ACTIVE]]

(***************************************************************************)
(* getAllProducts                                                          *)
(***************************************************************************)
\* JSON.parse(search): throws on malformed text; otherwise the value, of
\* which the handler reads the properties name, productId, status, category
\* (undefined on a number, a string or an array)
JSONParse(raw) ==
  IF raw.kind = "malformed"
  THEN [threw |-> TRUE, t |-> "undefined", name |-> Undef, productId |-> Undef,
        status |-> Undef, category |-> Undef]
  ELSE IF raw.kind = "object"
  THEN [threw |-> FALSE, t |-> "object", name |-> raw.name,
        productId |-> raw.productId, status |-> raw.status,
        category |-> raw.category]
  ELSE [threw |-> FALSE, t |-> raw.kind, name |-> Undef, productId |-> Undef,
        status |-> Undef, category |-> Undef]

\* const { x = d } = req.query: the default applies to undefined only
Default(v, d) == IF v.t = "undefined" THEN d ELSE v

EmptyObject ==
  [kind |-> "object", name |-> Undef, productId |-> Undef, status |-> Undef,
   category |-> Undef]

\* page = parseInt(page) || 1
CoercePage(page) == OrElse(ParseInt(Default(page, Num(1))), Num(1))

\* limit = parseInt(limit) || 10
CoerceLimit(limit) == OrElse(ParseInt(Default(limit, Num(10))), Num(10))

\* skip = (page - 1) * limit
Skip(page, limit) == (page.n - 1) * limit.n

NoCond == [op |-> "none", val |-> <<>>]

\* Step 3: if (search.name) matchStage.name = { $regex, $options: "i" }
NameCond(search) ==
  IF Truthy(search.name) THEN [op |-> "regex", val |-> search.name.s] ELSE NoCond

\* Step 4: if (search.productId) { parsedId = parseInt(...); isNaN -> 400 }
ProductIdPresent(search) == Truthy(search.productId)

ProductIdCond(search) ==
  IF ProductIdPresent(search)
  THEN [op |-> "eq", val |-> ParseInt(search.productId)]
  ELSE [op |-> "none", val |-> Undef]

\* (mutant) no default: without a token every status is listed
StatusCondNoDefault(status) ==
  IF status = Str(ACTIVE) \/ status = Str(INACTIVE) \/ status = Str(DELETED)
  THEN [op |-> "eq", val |-> status.s]
  ELSE IF ~Truthy(status) \/ status = Str(<<>>)
  THEN NoCond
  ELSE [op |-> "invalid", val |-> <<>>]

\* Step 5: the status filter; "invalid" when the token is not recognised
StatusCond(status) ==
  IF status = Str(ACTIVE) \/ status = Str(INACTIVE) \/ status = Str(DELETED)
  THEN [op |-> "eq", val |-> status.s]
  ELSE IF ~Truthy(status) \/ status = Str(<<>>)
  THEN [op |-> "ne", val |-> DELETED]
  ELSE [op |-> "invalid", val |-> <<>>]

\* Step 7: if (search.category) push { $match: { "category.name": ... } }
CategoryCond(search) ==
  IF Truthy(search.category) THEN [op |-> "eq", val |-> search.category] ELSE [op |-> "none", val |-> Undef]

\* { $match: matchStage }
MatchDoc(p, m) ==
  /\ (m.name.op = "regex" => RegexMatchI(p.name, m.name.val))
  /\ (m.productId.op = "eq" => Num(p.productId) = m.productId.val)
  /\ (m.status.op = "eq" => p.status = m.status.val)
  /\ (m.status.op = "ne" => p.status # m.status.val)

\* $lookup from categories, then $unwind with preserveNullAndEmptyArrays: a
\* product whose category is gone is kept, without a category
Joined(p, cats) ==
  [doc |-> p,
   category |-> IF p.category \in DOMAIN cats
                THEN Str(cats[p.category].name)
                ELSE Undef]

\* the optional post-join { $match: { "category.name": search.category } }
MatchCategory(j, c) == c.op = "eq" => j.category = c.val

\* $project
Project(j) ==
  [name |-> j.doc.name, description |-> j.doc.description,
   price |-> j.doc.price, category |-> j.category,
   productId |-> j.doc.productId, image |-> j.doc.image,
   status |-> j.doc.status]

RECURSIVE SortByProductId(_)
\* { $sort: { productId: 1 } }
SortByProductId(S) ==
  IF S = {} THEN <<>>
  ELSE LET m == CHOOSE x \in S : \A y \in S : x.productId <= y.productId
       IN <<m>> \o SortByProductId(S \ {m})

\* paginatedResults: [{ $skip: skip }, { $limit: limit }]
PaginatedResults(sorted, skip, limit) ==
  SubSeq(sorted, skip + 1, IF skip + limit < Len(sorted) THEN skip + limit ELSE Len(sorted))

\* totalCount: [{ $count: "count" }]: no element when nothing matches
TotalCount(sorted) == IF Len(sorted) = 0 THEN <<>> ELSE <<Len(sorted)>>

\* (mutant) the deferred category match is left out
FilteredWithoutCategory(prods, cats, m, c) ==
  {Project(j) : j \in {Joined(p, cats) : p \in {d \in prods : MatchDoc(d, m)}}}

\* the documents that reach $sort
Filtered(prods, cats, m, c) ==
  {Project(j) : j \in {k \in {Joined(p, cats) : p \in {d \in prods : MatchDoc(d, m)}} : MatchCategory(k, c)}}

\* Product.aggregate(pipeline): the store rejects a negative $skip and a
\* $limit that is not positive, and may be unreachable
AggregateThrows(storeUp, skip, limit) == ~storeUp \/ skip < 0 \/ limit <= 0

Aggregate(prods, cats, m, c, skip, limit) ==
  LET sorted == SortByProductId(Filtered(prods, cats, m, c))
  IN [paginatedResults |-> PaginatedResults(sorted, skip, limit),
      totalCount |-> TotalCount(sorted)]

\* imageUrl: product.image ? `${protocol}://${host}/uploads/${image}` : null
ImageUrl(image) == IF Truthy(image) THEN Str(ORIGIN \o UPLOADS \o image.s) ELSE Null

\* Math.ceil(a / b) for a >= 0, b > 0
Ceil(a, b) == (a + b - 1) \div b

ListOut(code, msg, queried, page, limit, m, c, items, total, pages) ==
  [code |-> code, msg |-> msg, queried |-> queried, page |-> page,
   limit |-> limit, skip |-> Skip(Num(page), Num(limit)), match |-> m, catCond |-> c,
   products |-> items, total |-> total, pages |-> pages]

NoMatchStage == [name |-> NoCond, productId |-> [op |-> "none", val |-> Undef], status |-> NoCond]

\* the whole handler: the response and what was submitted to the store
GetAllProductsResult(prods, cats, in) ==
  LET parsed == JSONParse(IF in.search.kind = "absent" THEN EmptyObject ELSE in.search)
      page == CoercePage(in.page).n
      limit == CoerceLimit(in.limit).n
      skip == Skip(Num(page), Num(limit))
      m == [name |-> NameCond(parsed), productId |-> ProductIdCond(parsed),
            status |-> StatusCond(parsed.status)]
      c == CategoryCond(parsed)
      none == [op |-> "none", val |-> Undef]
  IN IF parsed.threw
     THEN ListOut(400, "Invalid search query format. Must be valid JSON.", FALSE, 1, 10, NoMatchStage, none, <<>>, 0, 0)
     ELSE IF parsed.t = "null"
     THEN \* search.name on null throws a TypeError, caught at line 120
          ListOut(500, "An unexpected error occurred.", FALSE, page, limit, NoMatchStage, none, <<>>, 0, 0)
     ELSE IF m.productId.op = "eq" /\ IsNaN(m.productId.val)
     THEN ListOut(400, "Invalid productId. Must be a number.", FALSE, page, limit, NoMatchStage, none, <<>>, 0, 0)
     ELSE IF m.status.op = "invalid"
     THEN ListOut(400, "Invalid status. Must be 'active', 'inactive', or 'deleted'.", FALSE, page, limit, NoMatchStage, none, <<>>, 0, 0)
     ELSE IF AggregateThrows(in.storeUp, skip, limit)
     THEN ListOut(500, "An unexpected error occurred.", TRUE, page, limit, m, c, <<>>, 0, 0)
     ELSE LET result == Aggregate(prods, cats, m, c, skip, limit)
              total == IF result.totalCount = <<>> THEN 0 ELSE result.totalCount[1]
              items == [i \in 1..Len(result.paginatedResults) |->
                          [doc |-> result.paginatedResults[i],
                           imageUrl |-> ImageUrl(result.paginatedResults[i].image)]]
          IN ListOut(200, "", TRUE, page, limit, m, c, items, total, Ceil(total, limit))


(***************************************************************************)
(* getProductById                                                          *)
(***************************************************************************)
\* mongoose.Types.ObjectId.isValid(id)
IsValidObjectId(id) == id.wellFormed

\* the status part of the findOne filter (lines 138-143)
ByIdStatusCond(status) ==
  IF status = Str(ACTIVE) \/ status = Str(INACTIVE) \/ status = Str(DELETED)
  THEN [op |-> "eq", val |-> status.s]
  ELSE [op |-> "ne", val |-> DELETED]

\* Product.findOne(filter): the matching documents (at most one per _id)
FindOne(prods, oid, cond) ==
  {p \in prods : /\ p._id = oid
                 /\ (cond.op = "eq" => p.status = cond.val)
                 /\ (cond.op = "ne" => p.status # cond.val)}

\* .populate("category", "name")
Populate(p, cats) ==
  [p EXCEPT !.category = IF p.category \in DOMAIN cats
                         THEN Str(cats[p.category].name) ELSE Null]

GetOut(code, msg, queried, cond, found) ==
  [code |-> code, msg |-> msg, queried |-> queried, filter |-> cond, found |-> found]

GetProductByIdResult(prods, cats, in) ==
  LET cond == ByIdStatusCond(in.status)
      hit == FindOne(prods, in.id.oid, cond)
  IN IF ~IsValidObjectId(in.id)
     THEN GetOut(400, "Invalid product ID.", FALSE, NoCond, {})
     ELSE IF ~in.storeUp
     THEN GetOut(500, "An unexpected error occurred.", TRUE, cond, {})
     ELSE IF hit = {}
     THEN GetOut(404, "Product not found.", TRUE, cond, {})
     ELSE GetOut(200, "", TRUE, cond,
                 {[doc |-> Populate(p, cats), imageUrl |-> ImageUrl(p.image)] : p \in hit})

(***************************************************************************)
(* createProduct: a request runs from one await to the next; between two   *)
(* awaits other requests, a category update and the clock may move.        *)
(***************************************************************************)
NoFile == [present |-> FALSE, name |-> <<>>, mimetype |-> <<>>]

IdleReq ==
  [pc |-> "idle", name |-> Undef, price |-> Undef, description |-> Undef,
   categoryName |-> Undef, file |-> NoFile, category |-> "", filename |-> <<>>,
   code |-> 0, msg |-> "", failedAt |-> "", wroteFile |-> FALSE, wroteRecord |-> FALSE]

\* res.status(code).json({ message }): the request is over, and of its
\* locals only what it asked for and what it wrote is remembered
Respond(req, code, msg) ==
  [IdleReq EXCEPT !.pc = "done", !.code = code, !.msg = msg,
                  !.categoryName = req.categoryName, !.filename = req.filename,
                  !.wroteFile = req.wroteFile, !.wroteRecord = req.wroteRecord]

\* the catch block of lines 257-260, after the step `at` threw
Caught(req, at) ==
  [Respond(req, 500, "Internal server error.") EXCEPT !.failedAt = at]

\* if (!name || !price || !description || !categoryName)
MissingField(b) ==
  ~Truthy(b.name) \/ ~Truthy(b.price) \/ ~Truthy(b.description) \/ ~Truthy(b.categoryName)

\* Category.findOne({ name: categoryName }): the categories of that name
FindCategory(cats, categoryName) ==
  {c \in DOMAIN cats : Str(cats[c].name) = categoryName}

IMAGE_PREFIX == <<"i", "m", "a", "g", "e", "/">>

\* s.startsWith(prefix)
StartsWith(s, prefix) ==
  Len(s) >= Len(prefix) /\ SubSeq(s, 1, Len(prefix)) = prefix

\* path.extname: from the last "." on, empty without one or when the only
\* one leads the name
ExtName(s) ==
  LET dots == {i \in 1..Len(s) : s[i] = "."}
      last == CHOOSE i \in dots : \A j \in dots : j <= i
  IN IF dots = {} \/ last = 1 THEN <<>> ELSE SubSeq(s, last, Len(s))

\* name.toLowerCase().replace(/[^a-z0-9]/gi, "-")
SafeName(name) == ReplaceNonAlnum(ToLowerCase(name))

\* `${safeName}-${Date.now()}${extension}`
Filename(name, time, uploadedName) ==
  SafeName(name) \o <<"-">> \o ToDecimal(time) \o ExtName(uploadedName)

\* `${process.env.BASE_URL}/uploads/${filename}`
CreatedImageUrl(filename) == BASE_URL \o UPLOADS \o filename

\* lines 194-225 once Category.findOne has answered with `found`: the
\* request's next state (a response, or the file move being awaited)
AfterFindOne(req, found, cats, time) ==
  IF found = {}
  THEN Respond(req, 400, "Category not found.")
  ELSE LET c == CHOOSE x \in found : TRUE
       IN IF cats[c].status = DELETED
          THEN Respond(req, 400, "Cannot add product. Category is marked as deleted.")
          ELSE IF ~req.file.present
          THEN Respond(req, 400, "Product image file is required.")
          ELSE IF ~StartsWith(req.file.mimetype, IMAGE_PREFIX)
          THEN Respond(req, 400, "Only image files are allowed.")
          ELSE [req EXCEPT !.pc = "mv", !.category = c,
                           !.filename = Filename(req.name.s, time, req.file.name)]

\* (mutant) a failed file move is swallowed and the record is written anyway
AfterMvIgnoringFailure(req, ok) ==
  IF ok THEN [req EXCEPT !.pc = "save", !.wroteFile = TRUE]
  ELSE [req EXCEPT !.pc = "save", !.failedAt = "mv"]

\* await uploadedFile.mv(imagePath): on success the record is built and its
\* save awaited; a failure is caught
AfterMv(req, ok) ==
  IF ok THEN [req EXCEPT !.pc = "save", !.wroteFile = TRUE] ELSE Caught(req, "mv")

\* new Product({ name, price, description, category, image, imageUrl }); the
\* document's _id is generated with it and is unique to the request
NewProduct(req, id) ==
  [_id |-> id, name |-> req.name.s, price |-> req.price.s,
   description |-> req.description.s, category |-> req.category,
   image |-> Str(req.filename), imageUrl |-> CreatedImageUrl(req.filename)]

\* (mutant) a failed save is reported as a validation error
AfterSaveReporting400(req, ok) ==
  IF ok
  THEN [Respond(req, 201, "Product created successfully.") EXCEPT !.wroteRecord = TRUE]
  ELSE Respond(req, 400, "Product validation failed.")

\* await product.save(), then the 201 response; a failure is caught
AfterSave(req, ok) ==
  IF ok
  THEN [Respond(req, 201, "Product created successfully.") EXCEPT !.wroteRecord = TRUE]
  ELSE Caught(req, "save")

Requests == 1..NumRequests

BodyNames == {Undef, Str(<<"A", " ">>)}
BodyPrices == {Undef, Str(<<"9">>)}
BodyDescriptions == {Str(<<>>), Str(<<"d">>)}
BodyCategoryNames == {Undef, Str(WIDGETS), Str(NOSUCH)}
UploadedFiles ==
  {NoFile,
   [present |-> TRUE, name |-> <<"x", ".", "p">>, mimetype |-> IMAGE_PREFIX \o <<"p">>],
   [present |-> TRUE, name |-> <<"x", ".", "p">>, mimetype |-> <<"t", "e", "x", "t", "/", "p">>]}

CreateInputs ==
  [name : BodyNames, price : BodyPrices, description : BodyDescriptions,
   categoryName : BodyCategoryNames, file : UploadedFiles]

\* lines 175-192: the body is read and validated, Category.findOne is issued
CreateStart(r) ==
  /\ reqs[r].pc = "idle"
  /\ \E in \in CreateInputs :
       LET req == [reqs[r] EXCEPT !.name = in.name, !.price = in.price,
                                  !.description = in.description,
                                  !.categoryName = in.categoryName, !.file = in.file]
       IN reqs' = [reqs EXCEPT ![r] =
            IF MissingField(in)
            THEN Respond(reqs[r], 400, "Fields name, price, description, and categoryName are required.")
            ELSE [req EXCEPT !.pc = "findOne"]]
  /\ UNCHANGED <<products, categories, uploadDir, files, now, q>>

\* lines 192-234: Category.findOne answers (or throws); the category, the
\* file and its type are checked, the filename is derived from the clock,
\* the uploads directory is made if absent, and the file move is issued
CreateFindOne(r) ==
  /\ reqs[r].pc = "findOne"
  /\ \E ok \in BOOLEAN :
       LET next == IF ok
                   THEN AfterFindOne(reqs[r], FindCategory(categories, reqs[r].categoryName), categories, now)
                   ELSE Caught(reqs[r], "findOne")
       IN /\ reqs' = [reqs EXCEPT ![r] = next]
          /\ uploadDir' = (uploadDir \/ next.pc = "mv")
  /\ UNCHANGED <<products, categories, files, now, q>>

\* line 234: the file move completes, writing (or overwriting) the file, or
\* fails
CreateMv(r) ==
  /\ reqs[r].pc = "mv"
  /\ \E ok \in BOOLEAN :
       /\ reqs' = [reqs EXCEPT ![r] = AfterMv(reqs[r], ok)]
       /\ files' = IF ok
                   THEN [f \in DOMAIN files \cup {reqs[r].filename} |->
                           IF f = reqs[r].filename THEN r ELSE files[f]]
                   ELSE files
  /\ UNCHANGED <<products, categories, uploadDir, now, q>>

\* line 248: product.save() completes, writing the record, or fails
CreateSave(r) ==
  /\ reqs[r].pc = "save"
  /\ \E ok \in BOOLEAN :
       /\ reqs' = [reqs EXCEPT ![r] = AfterSave(reqs[r], ok)]
       /\ products' = IF ok THEN products \cup {NewProduct(reqs[r], r)} ELSE products
  /\ UNCHANGED <<categories, uploadDir, files, now, q>>

\* a collaborator outside this controller changes a category's status
SetCategoryStatus(c, s) ==
  /\ categories[c].status # s
  /\ categories' = [categories EXCEPT ![c].status = s]
  /\ UNCHANGED <<products, uploadDir, files, now, reqs, q>>

\* a millisecond passes
Tick ==
  /\ now < MaxClock
  /\ now' = now + 1
  /\ UNCHANGED <<products, categories, uploadDir, files, reqs, q>>

Init ==
  /\ products = {}
  /\ categories = InitCategories
  /\ uploadDir = FALSE
  /\ files = <<>>
  /\ now = 1
  /\ reqs = [r \in Requests |-> IdleReq]
  /\ q = [op |-> "none"]

Next ==
  \/ \E r \in Requests : CreateStart(r)
  \/ \E r \in Requests : CreateFindOne(r)
  \/ \E r \in Requests : CreateMv(r)
  \/ \E r \in Requests : CreateSave(r)
  \/ \E c \in DOMAIN categories, s \in CategoryStatuses : SetCategoryStatus(c, s)
  \/ Tick

Spec == Init /\ [][Next]_vars

(***************************************************************************)
(* Requests the handlers are checked on.                                   *)
(***************************************************************************)
NameValues == {Undef, Str(<<"a">>), Str(<<"B">>)}
ProductIdValues == {Undef, Num(0), Num(2), Str(<<>>), Str(<<"2", "a">>), Str(<<"x">>)}
StatusValues == {Undef, Str(<<>>), Str(ACTIVE), Str(INACTIVE), Str(DELETED), Str(BOGUS)}
CategoryValues == {Undef, Str(WIDGETS), Str(GADGETS)}
PageValues == {Undef, Str(<<"x">>), Str(<<"0">>), Str(<<"-", "1">>), Str(<<"1">>), Str(<<"2">>)}
LimitValues == {Undef, Str(<<"x">>), Str(<<"0">>), Str(<<"-", "2">>), Str(<<"2">>)}

SearchValues ==
  [kind : {"object"}, name : NameValues, productId : ProductIdValues,
   status : StatusValues, category : CategoryValues]
  \cup [kind : {"absent", "malformed", "null", "number", "string", "array"},
        name : {Undef}, productId : {Undef}, status : {Undef}, category : {Undef}]

ListInputs ==
  [search : SearchValues, page : PageValues, limit : LimitValues, storeUp : BOOLEAN]

GetInputs ==
  [id : [wellFormed : BOOLEAN, oid : 1..(MaxCatalog + 1)],
   status : StatusValues, storeUp : BOOLEAN]

NoQuery == [op |-> "none"]


(***************************************************************************)
(* The query specification: one catalogue, one query at a time (a query    *)
(* writes nothing, so queries do not affect one another).                  *)
(***************************************************************************)
QueryCategories ==
  [c \in CatIds |-> [name |-> CatName(c), status |-> IF c = "c1" THEN ACTIVE ELSE DELETED]]

InitQuery ==
  /\ products \in SUBSET Catalog
  /\ categories = QueryCategories
  /\ uploadDir = TRUE
  /\ files = <<>>
  /\ now = 1
  /\ reqs = [r \in Requests |-> IdleReq]
  /\ q = NoQuery

GetAllProducts ==
  /\ q.op = "none"
  /\ \E in \in ListInputs :
       q' = [op |-> "list", in |-> in, out |-> GetAllProductsResult(products, categories, in)]
  /\ UNCHANGED <<products, categories, uploadDir, files, now, reqs>>

GetProductById ==
  /\ q.op = "none"
  /\ \E in \in GetInputs :
       q' = [op |-> "get", in |-> in, out |-> GetProductByIdResult(products, categories, in)]
  /\ UNCHANGED <<products, categories, uploadDir, files, now, reqs>>

\* the response has been sent; the next query may arrive
QueryDone ==
  /\ q.op # "none"
  /\ q' = NoQuery
  /\ UNCHANGED <<products, categories, uploadDir, files, now, reqs>>

NextQuery == GetAllProducts \/ GetProductById \/ QueryDone

SpecQuery == InitQuery /\ [][NextQuery]_vars


(***************************************************************************)
(* Properties of the queries.                                              *)
(***************************************************************************)
IsList == q.op = "list"
IsGet == q.op = "get"
RecognisedStatus == {ACTIVE, INACTIVE, DELETED}

\* the status token of the request: a property of the parsed search object
StatusToken == IF q.in.search.kind = "object" THEN q.in.search.status ELSE Undef

\* C1: getProductById with a well-formed id and a non-empty status token
\* that is none of active, inactive, deleted answers 400 and does not query
\* the store.
C1_InvalidStatusRejected ==
  (IsGet /\ q.in.id.wellFormed /\ q.in.status.t = "string"
     /\ q.in.status.s # <<>> /\ q.in.status.s \notin RecognisedStatus)
  => (q.out.code = 400 /\ ~q.out.queried)

Missing(v) == v = Undef
NonNumeric(v) == v = Str(<<"x">>)

\* C2: after coercion page >= 1 and limit > 0, with page = 1 and limit = 10
\* for a missing or non-numeric input, and skip is not negative when the
\* pipeline is submitted.
C2_PaginationPositive ==
  (IsList /\ q.in.search.kind # "malformed")
  => /\ q.out.page >= 1
     /\ q.out.limit > 0
     /\ (Missing(q.in.page) \/ NonNumeric(q.in.page) => q.out.page = 1)
     /\ (Missing(q.in.limit) \/ NonNumeric(q.in.limit) => q.out.limit = 10)
     /\ (q.out.queried => q.out.skip >= 0)

\* the products that satisfy the match stage's name and productId conditions
\* and the deferred category condition of the answered request
SatisfiesOthers(p) ==
  /\ (q.out.match.name.op = "regex" => RegexMatchI(p.name, q.out.match.name.val))
  /\ (q.out.match.productId.op = "eq" => p.productId = q.out.match.productId.val.n)
  /\ (q.out.catCond.op = "eq" =>
        /\ p.category \in DOMAIN categories
        /\ q.out.catCond.val = Str(categories[p.category].name))

SatisfiesStatus(p) ==
  /\ (q.out.match.status.op = "eq" => p.status = q.out.match.status.val)
  /\ (q.out.match.status.op = "ne" => p.status # q.out.match.status.val)

MatchingSet == {p \in products : SatisfiesOthers(p) /\ SatisfiesStatus(p)}

Min(a, b) == IF a < b THEN a ELSE b
Max(a, b) == IF a > b THEN a ELSE b

\* C7: a successful listing's total is the number of products matching all
\* filters (the post-join category name included), and its items are the
\* elements at positions skip+1 .. skip+limit of that set in ascending
\* productId order.
C7_TotalAndPageFromSameSet ==
  (IsList /\ q.out.code = 200)
  => LET M == MatchingSet
         items == q.out.products
     IN /\ q.out.total = Cardinality(M)
        /\ Len(items) = Min(q.out.limit, Max(0, Cardinality(M) - q.out.skip))
        /\ \A i \in 1..Len(items) :
             \E p \in M :
               /\ p.productId = items[i].doc.productId
               /\ p.name = items[i].doc.name
               /\ Cardinality({o \in M : o.productId < p.productId}) = q.out.skip + i - 1

\* the second page of a listing filtered by category: 3 match, 1 is returned
C7_Witness ==
  /\ IsList /\ q.out.code = 200
  /\ q.out.catCond.op = "eq"
  /\ q.out.page = 2 /\ q.out.limit = 2
  /\ q.out.total = 3 /\ Len(q.out.products) = 1

\* C8: without a status token no deleted product is returned or counted and
\* every other product satisfying the other filters is counted; with one of
\* the three tokens only products of exactly that status are.
C8_StatusFilter ==
  (IsList /\ q.out.code = 200)
  => LET want(p) == IF StatusToken = Undef \/ StatusToken = Str(<<>>)
                    THEN p.status # DELETED
                    ELSE p.status = StatusToken.s
     IN /\ StatusToken.t = "string" /\ StatusToken.s # <<>> => StatusToken.s \in RecognisedStatus
        /\ q.out.total = Cardinality({p \in products : SatisfiesOthers(p) /\ want(p)})
        /\ \A i \in 1..Len(q.out.products) :
             \E p \in products : /\ p.productId = q.out.products[i].doc.productId
                                 /\ p.status = q.out.products[i].doc.status
                                 /\ want(p)

\* a default listing with name and category filters that hides a deleted
\* product which satisfies them, and lists another
C8_Witness ==
  /\ IsList /\ q.out.code = 200
  /\ StatusToken = Undef
  /\ q.out.match.name.op = "regex"
  /\ q.out.total > 0
  /\ \E p \in products : p.status = DELETED /\ SatisfiesOthers(p)

RECURSIVE AllDigits(_)
AllDigits(s) == s = <<>> \/ (Head(s) \in Digits /\ AllDigits(Tail(s)))

\* a JSON value that is an integer: a number, or a string of digits only
IsInteger(v) == v.t = "number" \/ (v.t = "string" /\ v.s # <<>> /\ AllDigits(v.s))
IntegerOf(v) == IF v.t = "number" THEN v.n ELSE DigitsValue(v.s, 0)

\* C9: a productId key that is present either is an integer, and the listing
\* is restricted to it, or the request fails with 400 InvalidProductId; it
\* is never ignored or read as another number.
C9_ProductIdNeverIgnored ==
  (IsList /\ q.in.search.kind = "object" /\ q.in.search.productId # Undef
     /\ StatusCond(StatusToken).op # "invalid" /\ q.out.code # 500)
  => IF IsInteger(q.in.search.productId)
     THEN /\ q.out.code = 200
          /\ q.out.match.productId.op = "eq"
          /\ q.out.match.productId.val = Num(IntegerOf(q.in.search.productId))
     ELSE /\ q.out.code = 400
          /\ q.out.msg = "Invalid productId. Must be a number."

\* the store call was made and failed
StoreCallFailed ==
  q.out.queried /\ AggregateThrows(q.in.storeUp, q.out.skip, q.out.limit)

\* C10: a search parameter that parses as JSON (null, a number, a string or
\* an array too) is answered 200 or 400, never 500, unless the store call
\* fails.
C10_ParsedSearchNever500 ==
  (IsList /\ q.in.search.kind # "malformed" /\ ~StoreCallFailed)
  => q.out.code \in {200, 400}


(***************************************************************************)
(* Properties of createProduct.                                            *)
(***************************************************************************)
\* C3: createProduct never writes a Product record that references a
\* category whose status is deleted at the moment of the write, whatever
\* another actor does to the category while the creation is in progress.
C3_NoRecordForDeletedCategory ==
  [][\A p \in products' \ products : categories[p.category].status # DELETED]_vars

\* C4: two created products of the same name and file extension have two
\* distinct stored filenames, and the file each request wrote is still its
\* own.
C4_DistinctFilenames ==
  /\ \A p1, p2 \in products :
       (p1._id # p2._id /\ p1.name = p2.name
          /\ ExtName(p1.image.s) = ExtName(p2.image.s))
       => p1.image # p2.image
  /\ \A r \in Requests :
       reqs[r].wroteFile => files[reqs[r].filename] = r

NoCategoryNamed(name) == \A c \in DOMAIN categories : Str(categories[c].name) # name

MissingFieldMsg == "Fields name, price, description, and categoryName are required."

\* C5: a request answered 400 has written no file and no record; a
\* categoryName that matches no category is answered 400 "Category not
\* found." (unless a field is missing or the lookup itself failed).
C5_ValidationErrorWritesNothing ==
  \A r \in Requests :
    /\ reqs[r].code = 400 =>
         /\ ~reqs[r].wroteFile /\ ~reqs[r].wroteRecord
         /\ \A f \in DOMAIN files : files[f] # r
         /\ \A p \in products : p._id # r
    /\ (reqs[r].pc = "done" /\ reqs[r].failedAt = "" /\ Truthy(reqs[r].categoryName)
          /\ NoCategoryNamed(reqs[r].categoryName)) =>
         /\ reqs[r].code = 400
         /\ reqs[r].msg \in {"Category not found.", MissingFieldMsg}

\* a request refused for its unknown category while another one has written
\* its file and its record
C5_Witness ==
  \E r, o \in Requests :
    /\ reqs[r].code = 400 /\ reqs[r].msg = "Category not found."
    /\ reqs[o].wroteRecord /\ DOMAIN files # {}

\* C6: the record is written only after the file is persisted and 201 is
\* sent only after the record is written; when the file move or the save
\* fails the answer is 500 and no record is written, and a file already
\* persisted stays.
C6_FileThenRecordThenResponse ==
  \A r \in Requests :
    /\ reqs[r].wroteRecord => reqs[r].wroteFile
    /\ (\E p \in products : p._id = r) =>
         /\ reqs[r].wroteFile
         /\ \A p \in products : p._id = r => p.image.s \in DOMAIN files
    /\ reqs[r].code = 201 => reqs[r].wroteRecord /\ \E p \in products : p._id = r
    /\ reqs[r].failedAt \in {"mv", "save"} =>
         /\ reqs[r].code = 500
         /\ ~reqs[r].wroteRecord
         /\ \A p \in products : p._id # r
    /\ reqs[r].failedAt = "mv" => ~reqs[r].wroteFile
    /\ reqs[r].failedAt = "save" =>
         reqs[r].wroteFile /\ reqs[r].filename \in DOMAIN files

\* one request created its product; another persisted its file and then
\* failed to save the record
C6_Witness ==
  \E r, o \in Requests :
    /\ reqs[r].code = 201
    /\ reqs[o].failedAt = "save" /\ reqs[o].code = 500
    /\ reqs[o].filename \in DOMAIN files

====
